---- MODULE Spec2Model ----
(***************************************************************************)
(* State-machine model of SlidePreprocessing.py: the per-slide pipeline    *)
(* preprocessing -> tiling -> normalize_tiles -> blurry_filter ->          *)
(* encode_tiles, its checkpoint files, and the pool fan-out of main.       *)
(*                                                                         *)
(* Granularity: one action per loop iteration or straight-line block of    *)
(* the source; a library call (to_csv, read_csv, Image.save) is one step.  *)
(* The collaborators outside the repository's sources are inputs: the      *)
(* slide (whether it opens, its magnification and dimensions), the mask    *)
(* (the origins whose region is_tissue accepts at the threshold), the      *)
(* Laplacian variance of each tile image, and whether a call into them     *)
(* raises.  Lengths are small integers, variances are counted in units of  *)
(* the blur threshold; ts.SCALE is one constant per slide and is left out  *)
(* of rows and names.                                                      *)
(***************************************************************************)
EXTENDS Integers, Sequences, FiniteSets

\* ---------------------------------------------------------------- bounds
MaxDim == 2       \* slide width and height range over 1..MaxDim
MaxMag == 2       \* native and target magnification range over 1..MaxMag
MaxSize == 2      \* args.desired_size ranges over 1..MaxSize
MaxOverlap == 2   \* args.overlap ranges over 0..MaxOverlap
MaxVar == 2       \* Laplacian variance of a tile ranges over 0..MaxVar
MaxRuns == 2      \* runs of the pipeline over one output directory
NSlides == 2      \* rows of patient_files.csv handed to the pool
TilingDim == 4    \* SpecTiling: slide width and height range over 1..TilingDim
TilingMag == 3    \* SpecTiling: magnifications range over 1..TilingMag

\* ------------------------------------------------------- program constants
None == -1                \* total_tiles = None, blur = None
BlurThreshold == 1        \* args.blur_threshold, the unit of variance

TILE_CSV == "tile_information.csv"
NORM_CSV == "normalized_tile_information.csv"
FOCUS_CSV == "infocus_tile_information.csv"
Manifests == {TILE_CSV, NORM_CSV, FOCUS_CSV}

TILES == "tiles"
NORMALIZED == "normalized_tiles"
INFOCUS == "infocus_tiles"
OUTFOCUS == "outfocus_tiles"
Dirs == {TILES, NORMALIZED, INFOCUS, OUTFOCUS}

VARIABLES
    args,         \* desired_size, desired_magnification, overlap
    slide,        \* the slide file: opens, magnification, dimensions
    mask,         \* origins whose region TissueMask.is_tissue accepts
    task,         \* index of the slide the worker processes
    run,          \* number of the run over this output directory
    pc,           \* position of the worker in preprocessing
    total_tiles,  \* local of preprocessing
    blur,         \* local of preprocessing
    error,        \* local list of preprocessing, returned
    summary,      \* local list of preprocessing, returned
    errors,       \* module-level list of the worker process
    loop,         \* locals of the stage that runs or ran last; out is the
                  \* history of its rows: the variance LaplaceFilter saw, 1
                  \* for a normalized tile, None for a tile that raised
    files,        \* manifests present in the output directory
    csv,          \* rows of each manifest
    dirs,         \* tile images in each directory
    laplace,      \* Laplacian variance of the normalized tiles read so far
    atStart,      \* history: files and csv when the run started
    results,      \* main: what starmap has collected
    main          \* main: pc, summary and errors of the parent process

vars == <<args, slide, mask, task, run, pc, total_tiles, blur, error, summary,
          errors, loop, files, csv, dirs, laplace, atStart, results, main>>

workerVars == <<pc, total_tiles, blur, error, summary, errors, loop>>
diskVars == <<files, csv, dirs, laplace>>
inputVars == <<args, slide, mask>>
poolVars == <<task, results, main>>

\* --------------------------------------------------------------- helpers
Origins == (0..(MaxDim - 1)) \X (0..(MaxDim - 1))

Slides == [opens : BOOLEAN, magnification : 1..MaxMag,
           dimensions : (1..MaxDim) \X (1..MaxDim)]

Args == [desired_size : 1..MaxSize, desired_magnification : 1..MaxMag,
         overlap : 0..MaxOverlap]

\* mutant: the checkpoint test looks in the wrong place and never finds a file
isfileNever(f) == FALSE

\* os.path.isfile on a manifest of the output directory
isfile(f) == f \in files

\* one manifest row; patient_id, magnification and scale are per slide, the
\* path is the directory plus the name built from x, y, magnification, size
Row(id, x, y, mag, size, dir) ==
    [patient_id |-> id, x |-> x, y |-> y, magnification |-> mag,
     size |-> size, path_to_slide |-> dir]

ErrorRecord(id, path, stage) == [id |-> id, path |-> path, stage |-> stage]

\* mutant: the ratio of the magnifications is inverted
best_size_inverted(ts, size, mag) ==
    IF mag > ts.magnification THEN None
    ELSE (size * mag) \div ts.magnification

\* best_size: int(size * (natural_mag / mag)), None when mag exceeds the
\* slide's magnification.  Within the bounds the float product truncates to
\* the integer quotient.
best_size(ts, size, mag) ==
    IF mag > ts.magnification THEN None
    ELSE (size * ts.magnification) \div mag

\* range(0, stop, step) for step > 0
RECURSIVE RangeFrom(_, _, _)
RangeFrom(v, stop, step) ==
    IF v >= stop THEN <<>> ELSE <<v>> \o RangeFrom(v + step, stop, step)

\* mutant: the stop is w - size instead of w - size + 1
rangeShort(stop, step) == RangeFrom(0, stop - 1, step)

range(stop, step) == RangeFrom(0, stop, step)

\* the stride of tiling
Stride(overlap, desired_size, size) ==
    IF overlap # 0 THEN desired_size \div overlap ELSE size

\* mutant: the boundary is exclusive
LaplaceFilterStrict(v, var_threshold) == v > var_threshold

\* TileQualityFilters.LaplaceFilter on a tile of Laplacian variance v
LaplaceFilter(v, var_threshold) == v >= var_threshold

NoLoop == [stage |-> "none"]

EmptyDisk == [f \in Manifests |-> <<>>]
EmptyDirs == [d \in Dirs |-> {}]

MainInit == [pc |-> "pool", summary |-> <<>>, errors |-> <<>>]

Snapshot(fs, c, rep) == [files |-> fs, csv |-> c, reported |-> rep]

TileName(row) == <<row.patient_id, row.x, row.y, row.magnification, row.size>>

\* ------------------------------------------------------------------ Init
InitWorker ==
    /\ pc = "start"
    /\ total_tiles = None
    /\ blur = None
    /\ error = <<>>
    /\ summary = <<>>
    /\ errors = <<>>
    /\ loop = NoLoop

Init ==
    /\ args \in Args
    /\ slide \in Slides
    /\ mask \in SUBSET Origins
    /\ task = 1
    /\ run = 1
    /\ InitWorker
    /\ files = {}
    /\ csv = EmptyDisk
    /\ dirs = EmptyDirs
    /\ laplace = {}
    /\ atStart = Snapshot({}, EmptyDisk, <<>>)
    /\ results = <<>>
    /\ main = MainInit

\* ------------------------------------------------- preprocessing, 300-342
\* lines 341-342: summary.append(...); return summary, error
Return(err) ==
    /\ error' = err
    /\ summary' = Append(summary, [id |-> task, total_tiles |-> total_tiles,
                                   blur |-> blur])
    /\ pc' = "returned"

\* lines 301-308, 339-342: TissueSlide(path); a slide that does not open is an
\* Error Record with stage "Slide Opening"
OpenSlide ==
    /\ pc = "start"
    /\ IF slide.opens
       THEN /\ pc' = "opened"
            /\ UNCHANGED <<error, summary>>
       ELSE Return(Append(error, ErrorRecord(task, <<>>, "Slide Opening")))
    /\ UNCHANGED <<total_tiles, blur, errors, loop>>
    /\ UNCHANGED <<inputVars, diskVars, poolVars, run, atStart>>

\* mutant: the comparison is reversed
MagnificationOkReversed(a, ts) == a.desired_magnification >= ts.magnification

\* line 309
MagnificationOk(a, ts) == a.desired_magnification <= ts.magnification

\* lines 309, 335-337, 341-342
CheckMagnification ==
    /\ pc = "opened"
    /\ IF MagnificationOk(args, slide)
       THEN /\ pc' = "tile_ckpt"
            /\ UNCHANGED <<error, summary>>
       ELSE Return(Append(error, ErrorRecord(task, <<>>, "Tiling")))
    /\ UNCHANGED <<total_tiles, blur, errors, loop>>
    /\ UNCHANGED <<inputVars, diskVars, poolVars, run, atStart>>

\* lines 312, 317-318: the manifest exists, only its row count is read
ReadTileCount ==
    /\ pc = "tile_ckpt"
    /\ isfile(TILE_CSV)
    /\ total_tiles' = Len(csv[TILE_CSV])
    /\ pc' = "norm_ckpt"
    /\ UNCHANGED <<blur, error, summary, errors, loop>>
    /\ UNCHANGED <<inputVars, diskVars, poolVars, run, atStart>>

\* ------------------------------------------------------- tiling, 72-134
\* the locals of tiling: size, the two ranges and the place in them, df_list
TilingLoop(size, xs, ys) ==
    [stage |-> "tiling", size |-> size, xs |-> xs, ys |-> ys,
     xi |-> 1, yi |-> 1, df_list |-> <<>>]

\* lines 312-316, 88-111: TissueMask, best_size, the stride and the ranges;
\* range() raises ValueError on a zero stride
TilingBegin ==
    /\ pc = "tile_ckpt"
    /\ ~isfile(TILE_CSV)
    /\ LET size == best_size(slide, args.desired_size, args.desired_magnification)
           stride == Stride(args.overlap, args.desired_size, size)
           w == slide.dimensions[1]
           h == slide.dimensions[2]
       IN IF size = None
          THEN /\ errors' = Append(errors, ErrorRecord(task, <<>>, "Tiling"))
               /\ total_tiles' = None
               /\ pc' = "norm_ckpt"
               /\ loop' = TilingLoop(size, <<>>, <<>>)
          ELSE IF stride = 0
          THEN /\ pc' = "raised"
               /\ loop' = TilingLoop(size, <<>>, <<>>)
               /\ UNCHANGED <<errors, total_tiles>>
          ELSE /\ loop' = TilingLoop(size, range(w - size + 1, stride),
                                     range(h - size + 1, stride))
               /\ pc' = "tiling"
               /\ UNCHANGED <<errors, total_tiles>>
    /\ UNCHANGED <<blur, error, summary>>
    /\ UNCHANGED <<inputVars, diskVars, poolVars, run, atStart>>

TilingPending ==
    /\ pc = "tiling"
    /\ loop.xi <= Len(loop.xs)
    /\ loop.yi <= Len(loop.ys)

NextCandidate(l) ==
    IF l.yi < Len(l.ys) THEN [l EXCEPT !.yi = l.yi + 1]
    ELSE [l EXCEPT !.xi = l.xi + 1, !.yi = 1]

\* lines 112-130: one candidate origin, read, asked of the mask, saved
TilingStep ==
    /\ TilingPending
    /\ LET x == loop.xs[loop.xi]
           y == loop.ys[loop.yi]
           row == Row(task, x, y, slide.magnification, loop.size, TILES)
       IN /\ x <= slide.dimensions[1] - loop.size
          /\ y <= slide.dimensions[2] - loop.size
          /\ IF <<x, y>> \in mask
             THEN /\ dirs' = [dirs EXCEPT ![TILES] = @ \cup {TileName(row)}]
                  /\ loop' = NextCandidate(
                        [loop EXCEPT !.df_list = Append(@, row)])
             ELSE /\ loop' = NextCandidate(loop)
                  /\ UNCHANGED dirs
    /\ UNCHANGED <<pc, total_tiles, blur, error, summary, errors>>
    /\ UNCHANGED <<inputVars, files, csv, laplace, poolVars, run, atStart>>

\* lines 113-114: read_region or get_region_mask raises; nothing catches it
TilingRaises ==
    /\ TilingPending
    /\ pc' = "raised"
    /\ UNCHANGED <<total_tiles, blur, error, summary, errors, loop>>
    /\ UNCHANGED <<inputVars, diskVars, poolVars, run, atStart>>

\* mutant: the manifest is written inside the loop, before its last candidate
TilingWriteEarly ==
    /\ pc = "tiling"
    /\ files' = files \cup {TILE_CSV}
    /\ csv' = [csv EXCEPT ![TILE_CSV] = loop.df_list]
    /\ total_tiles' = Len(loop.df_list)
    /\ pc' = "norm_ckpt"
    /\ UNCHANGED <<blur, error, summary, errors, loop>>
    /\ UNCHANGED <<inputVars, dirs, laplace, poolVars, run, atStart>>

\* lines 131-134: the manifest is written after the last candidate
TilingWrite ==
    /\ pc = "tiling"
    /\ ~TilingPending
    /\ files' = files \cup {TILE_CSV}
    /\ csv' = [csv EXCEPT ![TILE_CSV] = loop.df_list]
    /\ total_tiles' = Len(loop.df_list)
    /\ pc' = "norm_ckpt"
    /\ UNCHANGED <<blur, error, summary, errors, loop>>
    /\ UNCHANGED <<inputVars, dirs, laplace, poolVars, run, atStart>>

\* pd.read_csv of a manifest raises (missing or unreadable file); nothing
\* catches it: line 318, line 146 from 321, line 197 from 325, line 327
ReadCsvRaises ==
    /\ \/ pc = "tile_ckpt" /\ isfile(TILE_CSV)
       \/ pc = "norm_ckpt" /\ ~isfile(NORM_CSV)
       \/ pc = "blur_ckpt"
    /\ pc' = "raised"
    /\ UNCHANGED <<total_tiles, blur, error, summary, errors, loop>>
    /\ UNCHANGED <<inputVars, diskVars, poolVars, run, atStart>>

\* ---------------------------------------------- normalize_tiles, 137-184
\* lines 319-320: the manifest exists, the stage is skipped
SkipNormalize ==
    /\ pc = "norm_ckpt"
    /\ isfile(NORM_CSV)
    /\ pc' = "blur_ckpt"
    /\ UNCHANGED <<total_tiles, blur, error, summary, errors, loop>>
    /\ UNCHANGED <<inputVars, diskVars, poolVars, run, atStart>>

\* lines 320-321, 145-150: read the Tiling manifest
NormalizeBegin ==
    /\ pc = "norm_ckpt"
    /\ ~isfile(NORM_CSV)
    /\ isfile(TILE_CSV)
    /\ loop' = [stage |-> "normalize", tiles |-> csv[TILE_CSV], i |-> 1,
                df_list |-> <<>>, out |-> <<>>]
    /\ pc' = "normalize"
    /\ UNCHANGED <<total_tiles, blur, error, summary, errors>>
    /\ UNCHANGED <<inputVars, diskVars, poolVars, run, atStart>>

\* lines 151-175: the tile loads and normalizeStaining saves it
NormalizeStep ==
    /\ pc = "normalize"
    /\ loop.i <= Len(loop.tiles)
    /\ LET row == loop.tiles[loop.i]
           new == [row EXCEPT !.path_to_slide = NORMALIZED]
       IN /\ dirs' = [dirs EXCEPT ![NORMALIZED] = @ \cup {TileName(new)}]
          /\ loop' = [loop EXCEPT !.i = @ + 1, !.df_list = Append(@, new),
                                  !.out = Append(@, 1)]
    /\ UNCHANGED <<pc, total_tiles, blur, error, summary, errors>>
    /\ UNCHANGED <<inputVars, files, csv, laplace, poolVars, run, atStart>>

\* mutant: the except clause leaves the loop instead of going on
NormalizeTileFailsBreak ==
    /\ pc = "normalize"
    /\ loop.i <= Len(loop.tiles)
    /\ LET row == loop.tiles[loop.i]
       IN errors' = Append(errors,
              ErrorRecord(row.patient_id, TileName(row), "Normalization"))
    /\ loop' = [loop EXCEPT !.i = Len(loop.tiles) + 1, !.out = Append(@, None)]
    /\ UNCHANGED <<pc, total_tiles, blur, error, summary>>
    /\ UNCHANGED <<inputVars, diskVars, poolVars, run, atStart>>

\* lines 159-160, 180-182: Image.open or normalizeStaining raises
NormalizeTileFails ==
    /\ pc = "normalize"
    /\ loop.i <= Len(loop.tiles)
    /\ LET row == loop.tiles[loop.i]
       IN errors' = Append(errors,
              ErrorRecord(row.patient_id, TileName(row), "Normalization"))
    /\ loop' = [loop EXCEPT !.i = @ + 1, !.out = Append(@, None)]
    /\ UNCHANGED <<pc, total_tiles, blur, error, summary>>
    /\ UNCHANGED <<inputVars, diskVars, poolVars, run, atStart>>

\* lines 183-184
NormalizeWrite ==
    /\ pc = "normalize"
    /\ loop.i > Len(loop.tiles)
    /\ files' = files \cup {NORM_CSV}
    /\ csv' = [csv EXCEPT ![NORM_CSV] = loop.df_list]
    /\ pc' = "blur_ckpt"
    /\ UNCHANGED <<total_tiles, blur, error, summary, errors, loop>>
    /\ UNCHANGED <<inputVars, dirs, laplace, poolVars, run, atStart>>

\* ------------------------------------------------ blurry_filter, 187-243
\* lines 324, 326-327: the manifest exists, only its row count is read
ReadBlurCount ==
    /\ pc = "blur_ckpt"
    /\ isfile(FOCUS_CSV)
    /\ blur' = Len(csv[FOCUS_CSV])
    /\ pc' = "encode"
    /\ UNCHANGED <<total_tiles, error, summary, errors, loop>>
    /\ UNCHANGED <<inputVars, diskVars, poolVars, run, atStart>>

\* lines 324-325, 195-207: read the Normalization manifest
BlurBegin ==
    /\ pc = "blur_ckpt"
    /\ ~isfile(FOCUS_CSV)
    /\ isfile(NORM_CSV)
    /\ loop' = [stage |-> "blur", tiles |-> csv[NORM_CSV], i |-> 1,
                df_list |-> <<>>, out |-> <<>>]
    /\ pc' = "blur"
    /\ UNCHANGED <<total_tiles, blur, error, summary, errors>>
    /\ UNCHANGED <<inputVars, diskVars, poolVars, run, atStart>>

\* lines 216-235: the tile loads, LaplaceFilter decides the directory
BlurStep ==
    /\ pc = "blur"
    /\ loop.i <= Len(loop.tiles)
    /\ \E v \in 0..MaxVar :
         LET row == loop.tiles[loop.i]
             new == [row EXCEPT !.path_to_slide = INFOCUS]
         IN /\ \A p \in laplace : p[1] = TileName(row) => p[2] = v
            /\ laplace' = laplace \cup {<<TileName(row), v>>}
            /\ IF LaplaceFilter(v, BlurThreshold)
               THEN /\ dirs' = [dirs EXCEPT ![INFOCUS] = @ \cup {TileName(new)}]
                    /\ loop' = [loop EXCEPT !.i = @ + 1,
                                            !.df_list = Append(@, new),
                                            !.out = Append(@, v)]
               ELSE /\ dirs' = [dirs EXCEPT ![OUTFOCUS] = @ \cup {TileName(new)}]
                    /\ loop' = [loop EXCEPT !.i = @ + 1, !.out = Append(@, v)]
    /\ UNCHANGED <<pc, total_tiles, blur, error, summary, errors>>
    /\ UNCHANGED <<inputVars, files, csv, poolVars, run, atStart>>

\* lines 216-217, 236-239: the try block raises
BlurTileFails ==
    /\ pc = "blur"
    /\ loop.i <= Len(loop.tiles)
    /\ LET row == loop.tiles[loop.i]
       IN errors' = Append(errors,
              ErrorRecord(row.patient_id, TileName(row), "Blur filter."))
    /\ loop' = [loop EXCEPT !.i = @ + 1, !.out = Append(@, None)]
    /\ UNCHANGED <<pc, total_tiles, blur, error, summary>>
    /\ UNCHANGED <<inputVars, diskVars, poolVars, run, atStart>>

\* lines 241-243
BlurWrite ==
    /\ pc = "blur"
    /\ loop.i > Len(loop.tiles)
    /\ files' = files \cup {FOCUS_CSV}
    /\ csv' = [csv EXCEPT ![FOCUS_CSV] = loop.df_list]
    /\ blur' = Len(loop.df_list)
    /\ pc' = "encode"
    /\ UNCHANGED <<total_tiles, error, summary, errors, loop>>
    /\ UNCHANGED <<inputVars, dirs, laplace, poolVars, run, atStart>>

\* ------------------------------------------------ downstream, 329-342
\* SlideReconstruction and encode_tiles succeed; preprocessing returns
EncodeReturn ==
    /\ pc = "encode"
    /\ Return(error)
    /\ UNCHANGED <<total_tiles, blur, errors, loop>>
    /\ UNCHANGED <<inputVars, diskVars, poolVars, run, atStart>>

\* SlideReconstruction or encode_tiles raises; nothing catches it
EncodeRaises ==
    /\ pc = "encode"
    /\ pc' = "raised"
    /\ UNCHANGED <<total_tiles, blur, error, summary, errors, loop>>
    /\ UNCHANGED <<inputVars, diskVars, poolVars, run, atStart>>

\* the steps of a worker over an output directory that holds no manifest
Stages ==
    \/ OpenSlide
    \/ CheckMagnification
    \/ TilingBegin
    \/ TilingStep
    \/ TilingRaises
    \/ TilingWrite
    \/ ReadCsvRaises
    \/ NormalizeBegin
    \/ NormalizeStep
    \/ NormalizeTileFails
    \/ NormalizeWrite
    \/ BlurBegin
    \/ BlurStep
    \/ BlurTileFails
    \/ BlurWrite
    \/ EncodeReturn
    \/ EncodeRaises

\* the checkpoint skips of lines 312-327
Checkpoints ==
    \/ ReadTileCount
    \/ SkipNormalize
    \/ ReadBlurCount

Ended == pc \in {"returned", "raised", "killed"}

\* ------------------------------------------ interruption and restart
\* the process is killed from outside; its memory is lost, the disk stays
Interrupt ==
    /\ ~Ended
    /\ pc' = "killed"
    /\ UNCHANGED <<total_tiles, blur, error, summary, errors, loop>>
    /\ UNCHANGED <<inputVars, diskVars, poolVars, run, atStart>>

\* main is started again over the same input and output directory
Restart ==
    /\ Ended
    /\ run < MaxRuns
    /\ run' = run + 1
    /\ pc' = "start"
    /\ total_tiles' = None
    /\ blur' = None
    /\ error' = <<>>
    /\ summary' = <<>>
    /\ errors' = <<>>
    /\ loop' = NoLoop
    /\ atStart' = Snapshot(files, csv,
                           IF pc = "returned" THEN summary ELSE atStart.reported)
    /\ UNCHANGED <<inputVars, diskVars, poolVars>>

Next ==
    \/ Stages
    \/ Checkpoints
    \/ Interrupt
    \/ Restart

Spec == Init /\ [][Next]_vars

\* ------------------------------------------------------- main, 439-451
\* pool.starmap: the task's worker has returned or raised; its outcome
\* reaches the parent
Collect ==
    /\ main.pc = "pool"
    /\ pc \in {"returned", "raised"}
    /\ Len(results) < task
    /\ results' = Append(results, [ok |-> pc = "returned", summary |-> summary,
                                   error |-> error])
    /\ UNCHANGED <<task, main, run, atStart>>
    /\ UNCHANGED <<inputVars, diskVars, workerVars>>

\* the next row of patient_files.csv goes to a fresh worker process
\* (maxtasksperchild=1) with its own slide and output directory
Dispatch ==
    /\ main.pc = "pool"
    /\ Len(results) = task
    /\ task < NSlides
    /\ task' = task + 1
    /\ slide' \in Slides
    /\ mask' \in SUBSET Origins
    /\ pc' = "start"
    /\ total_tiles' = None
    /\ blur' = None
    /\ error' = <<>>
    /\ summary' = <<>>
    /\ errors' = <<>>
    /\ loop' = NoLoop
    /\ files' = {}
    /\ csv' = EmptyDisk
    /\ dirs' = EmptyDirs
    /\ laplace' = {}
    /\ UNCHANGED <<args, results, main, run, atStart>>

RECURSIVE Extend(_, _, _)
Extend(acc, res, field) ==
    IF res = <<>> THEN acc
    ELSE Extend(acc \o Head(res)[field], Tail(res), field)

\* lines 443-451: every task returned; summary and errors are extended
Aggregate ==
    /\ main.pc = "pool"
    /\ Len(results) = NSlides
    /\ \A i \in 1..NSlides : results[i].ok
    /\ main' = [pc |-> "reported",
                summary |-> Extend(main.summary, results, "summary"),
                errors |-> Extend(main.errors, results, "error")]
    /\ UNCHANGED <<task, results, run, atStart>>
    /\ UNCHANGED <<inputVars, diskVars, workerVars>>

\* lines 439-441: starmap re-raises a task's exception in the parent once
\* the tasks are done; lines 443-451 never run
StarmapRaises ==
    /\ main.pc = "pool"
    /\ Len(results) = NSlides
    /\ \E i \in 1..NSlides : ~results[i].ok
    /\ main' = [main EXCEPT !.pc = "crashed"]
    /\ UNCHANGED <<task, results, run, atStart>>
    /\ UNCHANGED <<inputVars, diskVars, workerVars>>

NextBatch ==
    \/ Stages
    \/ Collect
    \/ Dispatch
    \/ Aggregate
    \/ StarmapRaises

SpecBatch == Init /\ [][NextBatch]_vars

\* --------------------------------------- tiling called on its own
\* tiling(ts, result_path, mask, ...) entered with an empty output directory,
\* for every slide and every argument, the magnification failure included
TilingOrigins == (0..(TilingDim - 1)) \X (0..(TilingDim - 1))

TilingMasks ==
    {TilingOrigins, {}}
        \cup {{o} : o \in TilingOrigins}
        \cup {TilingOrigins \ {o} : o \in TilingOrigins}

InitTiling ==
    /\ args \in [desired_size : 1..MaxSize, desired_magnification : 1..TilingMag,
                 overlap : 0..MaxOverlap]
    /\ slide \in [opens : {TRUE}, magnification : 1..TilingMag,
                  dimensions : (1..TilingDim) \X (1..TilingDim)]
    /\ mask \in TilingMasks
    /\ task = 1
    /\ run = 1
    /\ pc = "tile_ckpt"
    /\ total_tiles = None
    /\ blur = None
    /\ error = <<>>
    /\ summary = <<>>
    /\ errors = <<>>
    /\ loop = NoLoop
    /\ files = {}
    /\ csv = EmptyDisk
    /\ dirs = EmptyDirs
    /\ laplace = {}
    /\ atStart = Snapshot({}, EmptyDisk, <<>>)
    /\ results = <<>>
    /\ main = MainInit

NextTiling ==
    \/ TilingBegin
    \/ TilingStep
    \/ TilingRaises
    \/ TilingWrite

SpecTiling == InitTiling /\ [][NextTiling]_vars

\* ================================================================ claims
StageNames == {"Tiling", "Normalization", "Blur filter", "Slide Opening"}

\* the rows a stage keeps: the input rows whose flag is set, under the new path
RECURSIVE Kept(_, _, _)
Kept(tiles, keep, dir) ==
    IF tiles = <<>> THEN <<>>
    ELSE (IF Head(keep) THEN <<[Head(tiles) EXCEPT !.path_to_slide = dir]>>
          ELSE <<>>)
         \o Kept(Tail(tiles), Tail(keep), dir)

\* the Error Records of the rows whose try block raised
RECURSIVE Failed(_, _, _)
Failed(tiles, out, stage) ==
    IF tiles = <<>> THEN <<>>
    ELSE (IF Head(out) = None
          THEN <<ErrorRecord(Head(tiles).patient_id, TileName(Head(tiles)), stage)>>
          ELSE <<>>)
         \o Failed(Tail(tiles), Tail(out), stage)

Prefix(q, n) == SubSeq(q, 1, n)

\* the origins the Tiling manifest is to hold, from the inputs alone
ExtractionSize == (args.desired_size * slide.magnification)
                      \div args.desired_magnification

ClaimedStride ==
    IF args.overlap = 0 THEN ExtractionSize
    ELSE args.desired_size \div args.overlap

CandidateOrigins ==
    {o \in (0..slide.dimensions[1]) \X (0..slide.dimensions[2]) :
        /\ o[1] % ClaimedStride = 0
        /\ o[2] % ClaimedStride = 0
        /\ o[1] <= slide.dimensions[1] - ExtractionSize
        /\ o[2] <= slide.dimensions[2] - ExtractionSize}

TissueOrigins == CandidateOrigins \cap mask

RowOrigins(rows) == {<<rows[i].x, rows[i].y>> : i \in 1..Len(rows)}

\* C1: preprocessing never raises past its own boundary, so that no slide's
\* failure makes starmap raise in main and abort the batch.
C1_NeverRaises ==
    /\ pc # "raised"
    /\ main.pc # "crashed"

\* C2: every Error Record recorded while a slide is processed (the worker's
\* module-level errors list included) is in the error list preprocessing
\* returns, hence in the errors main aggregates.
C2_ErrorsReturned ==
    /\ pc = "returned" =>
          \A i \in 1..Len(errors) : \E j \in 1..Len(error) : error[j] = errors[i]
    /\ main.pc = "reported" =>
          \A i \in 1..Len(errors) :
              \E j \in 1..Len(main.errors) : main.errors[j] = errors[i]

\* C3: a slide that opens with native magnification below the target never
\* enters tiling, normalization or the quality filter, writes no manifest,
\* and returns exactly one Error Record, of stage "Tiling", with an Outcome
\* Record whose two counts are None.
C3_MagnificationTooLow ==
    (slide.opens /\ slide.magnification < args.desired_magnification) =>
        /\ pc \in {"start", "opened", "returned", "killed"}
        /\ files = {}
        /\ dirs = EmptyDirs
        /\ loop = NoLoop
        /\ errors = <<>>
        /\ pc = "returned" =>
              /\ error = <<ErrorRecord(task, <<>>, "Tiling")>>
              /\ summary = <<[id |-> task, total_tiles |-> None, blur |-> None]>>

C3_Witness ==
    /\ slide.opens
    /\ slide.magnification < args.desired_magnification
    /\ pc = "returned"
    /\ Len(error) = 1

\* C4: normalize_tiles records one "Normalization" Error Record per failing
\* tile, leaves exactly those tiles out of normalized_tile_information.csv
\* and writes every other tile of the Tiling manifest, in the input order,
\* wherever the failing tiles sit.
C4_NormalizationIsolation ==
    (loop.stage = "normalize" /\ pc \in {"normalize", "blur_ckpt"}) =>
        LET n == Len(loop.out)
            done == Prefix(loop.tiles, n)
            keep == [i \in 1..n |-> loop.out[i] # None]
        IN /\ loop.tiles = csv[TILE_CSV]
           /\ n = loop.i - 1
           /\ loop.df_list = Kept(done, keep, NORMALIZED)
           /\ errors = Failed(done, loop.out, "Normalization")
           /\ pc = "blur_ckpt" =>
                 /\ n = Len(loop.tiles)
                 /\ csv[NORM_CSV] = loop.df_list

C4_Witness ==
    /\ loop.stage = "normalize"
    /\ pc = "blur_ckpt"
    /\ Len(loop.tiles) >= 3
    /\ loop.out[1] = None
    /\ loop.out[2] # None
    /\ loop.out[3] = None
    /\ Len(csv[NORM_CSV]) = Len(loop.tiles) - 2

AfterTiling ==
    {"norm_ckpt", "normalize", "blur_ckpt", "blur", "encode", "returned"}

\* C5: a stage whose manifest the run found on disk is not executed again
\* and its manifest stays as it was; the counts the run reports are the row
\* counts of those manifests, and a run over a directory an earlier run
\* returned from reports what that run reported.
C5_CheckpointIdempotence ==
    /\ \A f \in atStart.files : f \in files /\ csv[f] = atStart.csv[f]
    /\ TILE_CSV \in atStart.files => pc # "tiling"
    /\ NORM_CSV \in atStart.files => pc # "normalize"
    /\ FOCUS_CSV \in atStart.files => pc # "blur"
    /\ (TILE_CSV \in atStart.files /\ pc \in AfterTiling) =>
          total_tiles = Len(atStart.csv[TILE_CSV])
    /\ (FOCUS_CSV \in atStart.files /\ pc \in {"encode", "returned"}) =>
          blur = Len(atStart.csv[FOCUS_CSV])
    /\ (pc = "returned" /\ atStart.reported # <<>>) =>
          summary = atStart.reported

C5_Witness ==
    /\ run = 2
    /\ pc = "returned"
    /\ atStart.files = Manifests
    /\ atStart.reported # <<>>
    /\ total_tiles >= 2
    /\ blur >= 1
    /\ blur < total_tiles

\* what a manifest on disk says of its stage
ManifestsComplete ==
    /\ NORM_CSV \in files => TILE_CSV \in files
    /\ FOCUS_CSV \in files => NORM_CSV \in files
    /\ TILE_CSV \in files =>
          /\ RowOrigins(csv[TILE_CSV]) = TissueOrigins
          /\ Len(csv[TILE_CSV]) = Cardinality(TissueOrigins)
    /\ NORM_CSV \in files =>
          RowOrigins(csv[NORM_CSV]) \subseteq RowOrigins(csv[TILE_CSV])
    /\ FOCUS_CSV \in files =>
          RowOrigins(csv[FOCUS_CSV]) \subseteq RowOrigins(csv[NORM_CSV])

\* a manifest appears only in a step that ends a stage which has gone
\* through its whole input: every row has its outcome
WrittenWhenComplete ==
    /\ (TILE_CSV \notin files /\ TILE_CSV \in files') =>
          /\ loop.stage = "tiling"
          /\ loop.xi > Len(loop.xs) \/ loop.ys = <<>>
    /\ (NORM_CSV \notin files /\ NORM_CSV \in files') =>
          /\ loop.stage = "normalize"
          /\ loop.tiles = csv[TILE_CSV]
          /\ Len(loop.out) = Len(loop.tiles)
    /\ (FOCUS_CSV \notin files /\ FOCUS_CSV \in files') =>
          /\ loop.stage = "blur"
          /\ loop.tiles = csv[NORM_CSV]
          /\ Len(loop.out) = Len(loop.tiles)
    /\ files \subseteq files'

C7_TilingManifest ==
    isfile(TILE_CSV) =>
        /\ RowOrigins(csv[TILE_CSV]) = TissueOrigins
        /\ Len(csv[TILE_CSV]) = Cardinality(TissueOrigins)
        /\ pc = "norm_ckpt" => total_tiles = Cardinality(TissueOrigins)

\* the 1024 x 1024 slide with s = 512, in units of 256: the four origins
C7_Witness ==
    /\ isfile(TILE_CSV)
    /\ slide.dimensions = <<4, 4>>
    /\ loop.size = 2
    /\ args.overlap = 0
    /\ RowOrigins(csv[TILE_CSV]) = {<<0, 0>>, <<0, 2>>, <<2, 0>>, <<2, 2>>}
    /\ total_tiles = 4

\* C8 as stated: the extraction size times the target magnification equals
\* the output size times the native magnification whenever target <= native.
C8_ExactExtractionSize ==
    (loop.stage = "tiling"
        /\ args.desired_magnification <= slide.magnification) =>
        loop.size * args.desired_magnification
            = args.desired_size * slide.magnification

\* C8 as amended: best_size returns None exactly when target > native;
\* otherwise the extraction size is the quotient truncated to an integer:
\* size * target <= desired_size * native, with equality when the native
\* magnification is a multiple of the target; that size is the size column
\* of every manifest row.
C8_TruncatedExtractionSize ==
    loop.stage = "tiling" =>
        /\ loop.size = None <=> args.desired_magnification > slide.magnification
        /\ loop.size # None =>
              /\ loop.size * args.desired_magnification
                    <= args.desired_size * slide.magnification
              /\ slide.magnification % args.desired_magnification = 0 =>
                    loop.size * args.desired_magnification
                        = args.desired_size * slide.magnification
              /\ \A i \in 1..Len(loop.df_list) : loop.df_list[i].size = loop.size
              /\ \A i \in 1..Len(csv[TILE_CSV]) : csv[TILE_CSV][i].size = loop.size

C8_Witness ==
    /\ loop.stage = "tiling"
    /\ loop.size # None
    /\ slide.magnification % args.desired_magnification # 0
    /\ Len(csv[TILE_CSV]) >= 1
    /\ loop.size * args.desired_magnification
          < args.desired_size * slide.magnification

\* C9: every tile of the Normalization manifest that loads is saved to
\* exactly one of infocus_tiles and outfocus_tiles, to infocus_tiles exactly
\* when its variance is >= the threshold (equality included); the in-focus
\* manifest holds exactly the in-focus tiles, and the count returned is
\* their number.
C9_QualityPartition ==
    (loop.stage = "blur" /\ pc \in {"encode", "returned"}) =>
        LET n == Len(loop.tiles)
            focus == [i \in 1..n |->
                         loop.out[i] # None /\ loop.out[i] >= BlurThreshold]
        IN /\ Len(loop.out) = n
           /\ loop.tiles = csv[NORM_CSV]
           /\ csv[FOCUS_CSV] = Kept(loop.tiles, focus, INFOCUS)
           /\ blur = Cardinality({i \in 1..n : focus[i]})
           /\ \A i \in 1..n :
                 loop.out[i] # None =>
                    LET name == TileName(loop.tiles[i])
                    IN /\ (name \in dirs[INFOCUS]) # (name \in dirs[OUTFOCUS])
                       /\ (name \in dirs[INFOCUS]) <=> focus[i]

C9_Witness ==
    /\ loop.stage = "blur"
    /\ pc = "encode"
    /\ \E i, j \in 1..Len(loop.out) :
          /\ loop.out[i] = BlurThreshold
          /\ loop.out[j] # None
          /\ loop.out[j] < BlurThreshold
    /\ blur >= 1

AllRecords ==
    {error[i] : i \in 1..Len(error)}
        \cup {errors[i] : i \in 1..Len(errors)}
        \cup {main.errors[i] : i \in 1..Len(main.errors)}

\* C10: every Error Record carries one of the four stage names "Tiling",
\* "Normalization", "Blur filter", "Slide Opening".
C10_StageNames == \A r \in AllRecords : r.stage \in StageNames

====
